---- MODULE Spec2Model ----
(***************************************************************************)
(* Model of the reCAPTCHA verification client (package recaptcha).         *)
(*                                                                         *)
(* Units: scores and thresholds are float32 values written in hundredths   *)
(* (0.23 is 23); durations and timestamps are whole seconds.  Both sides   *)
(* of every score comparison are float32 values obtained by the same       *)
(* round-to-nearest conversion, so the order of the hundredths is the      *)
(* order the code compares.                                                *)
(*                                                                         *)
(* Go values that may be nil are records, so that every comparison is      *)
(* between values of one shape: an error is a record with a "type" field,  *)
(* a slice is [isNil, elems].  A raw response body is a record: a JSON     *)
(* object is a record of its members (an absent member is absent from the  *)
(* record's DOMAIN), any other text is [text |-> ...].                     *)
(***************************************************************************)
EXTENDS Integers, Sequences, FiniteSets, TLC

VARIABLES
    captcha,    \* the ReCAPTCHA value the caller holds
    pc,         \* "idle" | "constructed" | "returned" | "panicked"
    call,       \* the operation just run, with its arguments and what the world answered
    out         \* what the operation returned and what it did on the way

vars == <<captcha, pc, call, out>>

----------------------------------------------------------------------------
(* Program constants *)

reCAPTCHALink == "https://www.google.com/recaptcha/api/siteverify"

V2 == 0

V3 == 1

DefaultThreshold == 50

----------------------------------------------------------------------------
(* Bounds of the model *)

\* ResponseTime ranges over 0 .. MaxSeconds, challenge timestamps and elapsed
\* times over 0 .. MaxSeconds + 1.
MaxSeconds == 1

\* The wall clock reading of the model: a challenge stamped t was solved Now - t ago.
Now == MaxSeconds + 1

----------------------------------------------------------------------------
(* Go values *)

NilSlice == [isNil |-> TRUE, elems |-> <<>>]

Slice(s) == [isNil |-> FALSE, elems |-> s]

\* The empty string as a body text: the zero value of Error.ResponseBody.
EmptyString == [text |-> ""]

NilError == [type |-> "nil"]

\* A nil interface method call or nil pointer dereference: the call does not return.
Panic == [type |-> "panic"]

Error(msg, ErrorCodes, RequestError, ResponseBody) ==
    [type |-> "*Error", msg |-> msg, ErrorCodes |-> ErrorCodes,
     RequestError |-> RequestError, ResponseBody |-> ResponseBody]

reCHAPTCHARequest(Secret, Response, RemoteIP) ==
    [Secret |-> Secret, Response |-> Response, RemoteIP |-> RemoteIP]

\* VerifyOption{}: every field at its zero value.
ZeroVerifyOption ==
    [Threshold |-> 0, Action |-> "", Hostname |-> "", ApkPackageName |-> "",
     ResponseTime |-> 0, RemoteIP |-> ""]

\* ReCAPTCHA{}: what NewReCAPTCHA returns beside an error, and what a declared
\* but unassigned variable holds.
ZeroReCAPTCHA ==
    [client |-> "nil", Secret |-> "", ReCAPTCHALink |-> "", Version |-> V2,
     Timeout |-> 0, horloge |-> "nil"]

----------------------------------------------------------------------------
(* fmt.Sprintf verbs *)

\* %f of a float32 given in hundredths, x >= 0: 23 is "0.230000".
FormatScore(x) ==
    ToString(x \div 100) \o "."
        \o (IF x % 100 < 10 THEN "0" ELSE "") \o ToString(x % 100) \o "0000"

\* %f of Duration.Seconds() for a duration of d whole seconds: 8 is "8.000000".
FormatSeconds(d) == ToString(d) \o ".000000"

RECURSIVE JoinSpace(_)
JoinSpace(s) ==
    IF Len(s) = 0 THEN ""
    ELSE IF Len(s) = 1 THEN s[1]
    ELSE s[1] \o " " \o JoinSpace(Tail(s))

\* %v of a []string: [a b].
FormatCodes(codes) == "[" \o JoinSpace(codes.elems) \o "]"

----------------------------------------------------------------------------
(* The transport, the body reader, the JSON decoder and the clock *)

Member(obj, name, default) == IF name \in DOMAIN obj THEN obj[name] ELSE default

\* ioutil.ReadAll(response.Body): the bytes read and the reader's error.
ReadAll(Body) == [resultBody |-> Body.data, err |-> Body.readErr]

\* json.Unmarshal(resultBody, &result): text that is no JSON object is an error;
\* a member that is absent leaves its field at the zero value, an array
\* (the empty one too) makes a non-nil slice.
Unmarshal(resultBody) ==
    IF "text" \in DOMAIN resultBody
    THEN [err |-> [type |-> "*json.SyntaxError",
                   msg |-> IF resultBody.text = ""
                           THEN "unexpected end of JSON input"
                           ELSE "invalid character 'b' looking for beginning of value"],
          result |-> [Success |-> FALSE, ChallengeTS |-> 0, Hostname |-> "",
                      ApkPackageName |-> "", Action |-> "", Score |-> 0,
                      ErrorCodes |-> NilSlice]]
    ELSE [err |-> NilError,
          result |-> [Success |-> Member(resultBody, "success", FALSE),
                      ChallengeTS |-> Member(resultBody, "challenge_ts", 0),
                      Hostname |-> Member(resultBody, "hostname", ""),
                      ApkPackageName |-> Member(resultBody, "apk_package_name", ""),
                      Action |-> Member(resultBody, "action", ""),
                      Score |-> Member(resultBody, "score", 0),
                      ErrorCodes |-> IF "error-codes" \in DOMAIN resultBody
                                     THEN Slice(resultBody["error-codes"])
                                     ELSE NilSlice]]

\* realClock.Since(t): time.Since(t).
Since(t) == Now - t

----------------------------------------------------------------------------
(* NewReCAPTCHA *)

\* The timeout is handed to the HTTP client only, not kept in the engine.
NewReCAPTCHAWithoutTimeout(ReCAPTCHASecret, version, timeout) ==
    IF ReCAPTCHASecret = ""
    THEN [value |-> ZeroReCAPTCHA,
          err |-> [type |-> "*errors.errorString",
                   msg |-> "recaptcha secret cannot be blank"]]
    ELSE [value |-> [client |-> "http.Client", Secret |-> ReCAPTCHASecret,
                     ReCAPTCHALink |-> reCAPTCHALink, Version |-> version,
                     Timeout |-> 0, horloge |-> "realClock"],
          err |-> NilError]

\* The engine is made without its clock.
NewReCAPTCHAWithoutClock(ReCAPTCHASecret, version, timeout) ==
    IF ReCAPTCHASecret = ""
    THEN [value |-> ZeroReCAPTCHA,
          err |-> [type |-> "*errors.errorString",
                   msg |-> "recaptcha secret cannot be blank"]]
    ELSE [value |-> [client |-> "http.Client", Secret |-> ReCAPTCHASecret,
                     ReCAPTCHALink |-> reCAPTCHALink, Version |-> version,
                     Timeout |-> timeout, horloge |-> "nil"],
          err |-> NilError]

NewReCAPTCHA(ReCAPTCHASecret, version, timeout) ==
    IF ReCAPTCHASecret = ""
    THEN [value |-> ZeroReCAPTCHA,
          err |-> [type |-> "*errors.errorString",
                   msg |-> "recaptcha secret cannot be blank"]]
    ELSE [value |-> [client |-> "http.Client", Secret |-> ReCAPTCHASecret,
                     ReCAPTCHALink |-> reCAPTCHALink, Version |-> version,
                     Timeout |-> timeout, horloge |-> "realClock"],
          err |-> NilError]

----------------------------------------------------------------------------
(* confirm: the conditions of its checks *)

actionMismatch(options, result) ==
    options.Action # "" /\ options.Action # result.Action

\* The minimum score the response is held to.
minimumScore(options) ==
    IF options.Threshold # 0 THEN options.Threshold ELSE DefaultThreshold

\* A score equal to the threshold is rejected too.
scoreTooLowInclusive(options, result) ==
    \/ options.Threshold # 0 /\ options.Threshold >= result.Score
    \/ options.Threshold = 0 /\ DefaultThreshold >= result.Score

scoreTooLow(options, result) ==
    \/ options.Threshold # 0 /\ options.Threshold > result.Score
    \/ options.Threshold = 0 /\ DefaultThreshold > result.Score

hasErrorCodes(result) == ~result.ErrorCodes.isNil

hostnameMismatch(options, result) ==
    options.Hostname # "" /\ options.Hostname # result.Hostname

\* The app package name is never compared.
apkMismatchForgotten(options, result) == FALSE

apkMismatch(options, result) ==
    options.ApkPackageName # "" /\ options.ApkPackageName # result.ApkPackageName

\* A challenge exactly ResponseTime old is rejected too.
tooSlowInclusive(options, duration) == options.ResponseTime <= duration

tooSlow(options, duration) == options.ResponseTime < duration

----------------------------------------------------------------------------
(* confirm: the errors it builds *)

postError(err) ==
    Error("error posting to recaptcha endpoint: '" \o err.msg \o "'",
          NilSlice, TRUE, EmptyString)

readError(err) ==
    Error("couldn't read response body: '" \o err.msg \o "'",
          NilSlice, TRUE, EmptyString)

\* The raw body is left out of the parse error.
jsonErrorWithoutBody(err, resultBody) ==
    Error("invalid response body json: '" \o err.msg \o "'",
          NilSlice, TRUE, EmptyString)

jsonError(err, resultBody) ==
    Error("invalid response body json: '" \o err.msg \o "'",
          NilSlice, TRUE, resultBody)

actionError(options, result, resultBody) ==
    Error("invalid response action '" \o result.Action
              \o "', while expecting '" \o options.Action \o "'",
          NilSlice, FALSE, resultBody)

scoreError(options, result, resultBody) ==
    Error("received score '" \o FormatScore(result.Score)
              \o "', while expecting minimum '"
              \o FormatScore(minimumScore(options)) \o "'",
          NilSlice, FALSE, resultBody)

codesError(result, resultBody) ==
    Error("remote error codes: " \o FormatCodes(result.ErrorCodes),
          result.ErrorCodes, FALSE, resultBody)

successError(recaptcha, resultBody) ==
    Error(IF recaptcha.RemoteIP # ""
          THEN "invalid challenge solution or remote IP"
          ELSE "invalid challenge solution",
          NilSlice, FALSE, resultBody)

hostnameError(options, result, resultBody) ==
    Error("invalid response hostname '" \o result.Hostname
              \o "', while expecting '" \o options.Hostname \o "'",
          NilSlice, FALSE, resultBody)

apkError(options, result, resultBody) ==
    Error("invalid response ApkPackageName '" \o result.ApkPackageName
              \o "', while expecting '" \o options.ApkPackageName \o "'",
          NilSlice, FALSE, resultBody)

timeError(options, duration, resultBody) ==
    Error("time spent in resolving challenge '" \o FormatSeconds(duration)
              \o "s', while expecting maximum '"
              \o FormatSeconds(options.ResponseTime) \o "s'",
          NilSlice, FALSE, resultBody)

----------------------------------------------------------------------------
(* confirm: the checks in the order the code runs them, last one first.     *)
(* Each returns the error of the call and the timestamps handed to the      *)
(* clock on the way.                                                        *)

Done(err, since) == [err |-> err, since |-> since]

\* lines 218-229: the response-time check and the final return nil.
checkResponseTime(r, options, result, resultBody) ==
    IF options.ResponseTime # 0
    THEN IF r.horloge = "nil"
         THEN Done(Panic, <<>>)
         ELSE LET duration == Since(result.ChallengeTS)
              IN  IF tooSlow(options, duration)
                  THEN Done(timeError(options, duration, resultBody),
                            <<result.ChallengeTS>>)
                  ELSE Done(NilError, <<result.ChallengeTS>>)
    ELSE Done(NilError, <<>>)

\* lines 211-216, then the rest.
checkApkPackageName(r, options, result, resultBody) ==
    IF apkMismatch(options, result)
    THEN Done(apkError(options, result, resultBody), <<>>)
    ELSE checkResponseTime(r, options, result, resultBody)

\* lines 204-209, then the rest.
checkHostname(r, options, result, resultBody) ==
    IF hostnameMismatch(options, result)
    THEN Done(hostnameError(options, result, resultBody), <<>>)
    ELSE checkApkPackageName(r, options, result, resultBody)

\* lines 192-202, then the rest.
checkSuccess(r, recaptcha, options, result, resultBody) ==
    IF ~result.Success
    THEN Done(successError(recaptcha, resultBody), <<>>)
    ELSE checkHostname(r, options, result, resultBody)

\* The success flag is looked at before the error codes.
checkSuccessBeforeErrorCodes(r, recaptcha, options, result, resultBody) ==
    IF ~result.Success
    THEN Done(successError(recaptcha, resultBody), <<>>)
    ELSE IF hasErrorCodes(result)
    THEN Done(codesError(result, resultBody), <<>>)
    ELSE checkHostname(r, options, result, resultBody)

\* lines 185-190, then the rest.
checkErrorCodes(r, recaptcha, options, result, resultBody) ==
    IF hasErrorCodes(result)
    THEN Done(codesError(result, resultBody), <<>>)
    ELSE checkSuccess(r, recaptcha, options, result, resultBody)

\* lines 171-182, then the rest.
checkScore(r, recaptcha, options, result, resultBody) ==
    IF scoreTooLow(options, result)
    THEN Done(scoreError(options, result, resultBody), <<>>)
    ELSE checkErrorCodes(r, recaptcha, options, result, resultBody)

\* lines 165-170, then the rest.
checkAction(r, recaptcha, options, result, resultBody) ==
    IF actionMismatch(options, result)
    THEN Done(actionError(options, result, resultBody), <<>>)
    ELSE checkScore(r, recaptcha, options, result, resultBody)

\* The version is not looked at: the V3 checks run on every engine.
checkResultAnyVersion(r, recaptcha, options, result, resultBody) ==
    checkAction(r, recaptcha, options, result, resultBody)

\* lines 164-229: the checks on a decoded response.
checkResult(r, recaptcha, options, result, resultBody) ==
    IF r.Version = V3
    THEN checkAction(r, recaptcha, options, result, resultBody)
    ELSE checkErrorCodes(r, recaptcha, options, result, resultBody)

----------------------------------------------------------------------------
(* confirm, Verify, VerifyWithOptions *)

\* The form the request is posted as: remoteip only when one was given.
formValues(recaptcha) ==
    IF recaptcha.RemoteIP # ""
    THEN [secret |-> recaptcha.Secret, remoteip |-> recaptcha.RemoteIP,
          response |-> recaptcha.Response]
    ELSE [secret |-> recaptcha.Secret, response |-> recaptcha.Response]

Outcome(err, posted, since, closed) ==
    [err |-> err, posted |-> posted, since |-> since, closed |-> closed]

\* post is what r.client.PostForm answers: [response, err].  The deferred
\* response.Body.Close() runs on every return after it was registered.
confirm(r, recaptcha, options, post) ==
    LET request == [url |-> r.ReCAPTCHALink, form |-> formValues(recaptcha)]
    IN  IF r.client = "nil"
        THEN Outcome(Panic, <<>>, <<>>, FALSE)
        ELSE IF post.err # NilError
        THEN Outcome(postError(post.err), <<request>>, <<>>, FALSE)
        ELSE LET read == ReadAll(post.response.Body)
             IN  IF read.err # NilError
                 THEN Outcome(readError(read.err), <<request>>, <<>>, TRUE)
                 ELSE LET parsed == Unmarshal(read.resultBody)
                      IN  IF parsed.err # NilError
                          THEN Outcome(jsonError(parsed.err, read.resultBody),
                                       <<request>>, <<>>, TRUE)
                          ELSE LET checked == checkResult(r, recaptcha, options,
                                                          parsed.result,
                                                          read.resultBody)
                               IN  Outcome(checked.err, <<request>>,
                                           checked.since, TRUE)

\* Verify hands on options that are not empty.
VerifyWithHostname(r, challengeResponse, post) ==
    confirm(r, reCHAPTCHARequest(r.Secret, challengeResponse, ""),
            [ZeroVerifyOption EXCEPT !.Hostname = "test.com"], post)

Verify(r, challengeResponse, post) ==
    confirm(r, reCHAPTCHARequest(r.Secret, challengeResponse, ""),
            ZeroVerifyOption, post)

VerifyWithOptions(r, challengeResponse, options, post) ==
    confirm(r, reCHAPTCHARequest(r.Secret, challengeResponse, options.RemoteIP),
            options, post)

----------------------------------------------------------------------------
(* The inputs the callers and the world draw from *)

Secrets == {"", "my secret"}

Versions == {V2, V3}

\* Request timeouts, in seconds.
Timeouts == {0, 10}

Tokens == {"mycode"}

Options ==
    [Threshold : {0, 23, 60},
     Action : {"", "homepage"},
     Hostname : {"", "test.com"},
     ApkPackageName : {"", "com.test.app"},
     ResponseTime : 0 .. MaxSeconds,
     RemoteIP : {"", "123.123.123.123"}]

RemoteCodes ==
    {<<>>, <<"invalid-input-response">>,
     <<"invalid-input-response", "bad-request">>,
     <<"bad-request", "invalid-input-response">>}

\* JSON objects with every member but error-codes.
FullObjects ==
    [success : BOOLEAN,
     challenge_ts : 0 .. MaxSeconds + 1,
     hostname : {"test.com", "test2.com"},
     apk_package_name : {"com.test.app", "com.test.app2"},
     action : {"homepage", "homepage2"},
     score : {23, 50, 80}]

\* JSON objects of a v2 site: no action, score or package name.
SparseObjects ==
    [success : BOOLEAN, challenge_ts : {0}, hostname : {"test.com"}]

Objects ==
    FullObjects \cup SparseObjects
        \cup {("error-codes" :> c) @@ o : o \in FullObjects \cup SparseObjects,
                                         c \in RemoteCodes}

\* Response bodies: JSON objects, text that is no JSON, and nothing at all.
Bodies == Objects \cup {[text |-> " bogus json "], EmptyString}

NilResponse == [isNil |-> TRUE]

Response(data, readErr, closed) ==
    [isNil |-> FALSE, Body |-> [data |-> data, readErr |-> readErr, closed |-> closed]]

\* What http.Client.PostForm answers: an error and no response; an error beside a
\* response whose body is already closed (a refused redirect); a response whose
\* body fails while it is read; a response with a body.
PostOutcomes ==
    {[response |-> NilResponse,
      err |-> [type |-> "*url.Error", msg |-> "Unable to connect to server"]],
     [response |-> Response(EmptyString, NilError, TRUE),
      err |-> [type |-> "*url.Error", msg |-> "redirect refused"]],
     [response |-> Response(EmptyString,
                            [type |-> "*errors.errorString", msg |-> "read error"],
                            FALSE),
      err |-> NilError]}
    \cup {[response |-> Response(b, NilError, FALSE), err |-> NilError] : b \in Bodies}

\* What mockUnavailableClient.PostForm answers: an error beside a response
\* whose body is open.
MockUnavailableAnswer ==
    [response |-> Response(EmptyString, NilError, FALSE),
     err |-> [type |-> "*errors.errorString", msg |-> "Unable to connect to server"]]

\* What r.client.PostForm may answer, by the client the engine holds.
PostFormAnswers(client) ==
    IF client = "mockUnavailableClient" THEN {MockUnavailableAnswer} ELSE PostOutcomes

NoCall == [op |-> "none"]

NoOut == [err |-> NilError, posted |-> <<>>, since |-> <<>>, closed |-> FALSE]

----------------------------------------------------------------------------
(* The state machine: a caller that constructs engines and verifies tokens, *)
(* one call at a time.                                                      *)

Init ==
    /\ captcha = ZeroReCAPTCHA
    /\ pc = "idle"
    /\ call = NoCall
    /\ out = NoOut

\* A call starts only once the one before has returned.
Idle == pc = "idle"

\* captcha, err = NewReCAPTCHA(secret, version, timeout)
CallNewReCAPTCHA(secret, version, timeout) ==
    /\ Idle
    /\ LET made == NewReCAPTCHA(secret, version, timeout)
       IN  /\ captcha' = made.value
           /\ out' = Outcome(made.err, <<>>, <<>>, FALSE)
    /\ call' = [op |-> "NewReCAPTCHA", secret |-> secret, version |-> version,
                timeout |-> timeout]
    /\ pc' = "returned"

\* err = captcha.Verify(challengeResponse)
CallVerify(challengeResponse, post) ==
    /\ Idle
    /\ out' = Verify(captcha, challengeResponse, post)
    /\ call' = [op |-> "Verify", challengeResponse |-> challengeResponse,
                options |-> ZeroVerifyOption, post |-> post]
    /\ pc' = IF out'.err = Panic THEN "panicked" ELSE "returned"
    /\ UNCHANGED captcha

\* err = captcha.VerifyWithOptions(challengeResponse, options)
CallVerifyWithOptions(challengeResponse, options, post) ==
    /\ Idle
    /\ out' = VerifyWithOptions(captcha, challengeResponse, options, post)
    /\ call' = [op |-> "VerifyWithOptions", challengeResponse |-> challengeResponse,
                options |-> options, post |-> post]
    /\ pc' = IF out'.err = Panic THEN "panicked" ELSE "returned"
    /\ UNCHANGED captcha

\* captcha.client = &mockUnavailableClient{}: code of the package puts its
\* own netClient in place of the engine's.
SetMockUnavailableClient ==
    /\ Idle
    /\ captcha.client # "mockUnavailableClient"
    /\ captcha' = [captcha EXCEPT !.client = "mockUnavailableClient"]
    /\ UNCHANGED <<pc, call, out>>

\* The caller has looked at the result; the call's locals are gone.
Return ==
    /\ pc = "returned"
    /\ pc' = "idle"
    /\ call' = NoCall
    /\ out' = NoOut
    /\ UNCHANGED captcha

Next ==
    \/ /\ Idle
       /\ \E secret \in Secrets, version \in Versions, timeout \in Timeouts :
              CallNewReCAPTCHA(secret, version, timeout)
    \/ /\ Idle
       /\ \E challengeResponse \in Tokens, post \in PostFormAnswers(captcha.client) :
              CallVerify(challengeResponse, post)
    \/ /\ Idle
       /\ \E challengeResponse \in Tokens, options \in Options,
              post \in PostFormAnswers(captcha.client) :
              CallVerifyWithOptions(challengeResponse, options, post)
    \/ SetMockUnavailableClient
    \/ Return

Spec == Init /\ [][Next]_vars

----------------------------------------------------------------------------
(* What the properties read off a finished call *)

IsVerifyCall == call.op \in {"Verify", "VerifyWithOptions"}

\* A Verify or VerifyWithOptions call has returned to its caller.
Returned == pc = "returned" /\ IsVerifyCall

\* The engine was made by a NewReCAPTCHA call that returned no error.
Constructed == captcha.Secret # ""

PostFailed == Returned /\ call.post.err # NilError

ReadFailed ==
    /\ Returned
    /\ call.post.err = NilError
    /\ call.post.response.Body.readErr # NilError

\* The body was read in full.
BodyRead ==
    /\ Returned
    /\ call.post.err = NilError
    /\ call.post.response.Body.readErr = NilError

RawBody == call.post.response.Body.data

ParseFailed == BodyRead /\ "text" \in DOMAIN RawBody

\* The body was read and is a JSON object: the response parses.
Parsed == BodyRead /\ "text" \notin DOMAIN RawBody

\* The parsed response, the options and the request of the call.
Resp == Unmarshal(RawBody).result

Opts == call.options

Req == reCHAPTCHARequest(captcha.Secret, call.challengeResponse, Opts.RemoteIP)

\* The elapsed time the time source reports for the challenge timestamp.
Elapsed == Now - Resp.ChallengeTS

EffectiveThreshold == IF Opts.Threshold = 0 THEN DefaultThreshold ELSE Opts.Threshold

ActionOk == Opts.Action = "" \/ Opts.Action = Resp.Action

ScoreOk == ~(Resp.Score < EffectiveThreshold)

NoCodes == Len(Resp.ErrorCodes.elems) = 0

HostnameOk == Opts.Hostname = "" \/ Opts.Hostname = Resp.Hostname

ApkOk == Opts.ApkPackageName = "" \/ Opts.ApkPackageName = Resp.ApkPackageName

TimeOk == Opts.ResponseTime = 0 \/ ~(Elapsed > Opts.ResponseTime)

Accepted == out.err = NilError

----------------------------------------------------------------------------
(* C1 *)

\* The error-codes member of the response is absent or a non-empty list.
CodesAbsentOrNonEmpty ==
    "error-codes" \notin DOMAIN RawBody \/ Len(RawBody["error-codes"]) > 0

AllChecksPass ==
    /\ captcha.Version = V3 => ActionOk /\ ScoreOk
    /\ NoCodes
    /\ Resp.Success
    /\ HostnameOk
    /\ ApkOk
    /\ TimeOk

\* C1: for every response that parses and whose error-codes member is absent or
\* non-empty, VerifyWithOptions returns no error exactly when every applicable
\* check passes (action and score under V3, no error codes, success, hostname,
\* app package name, response time); the conjunction has no order.
C1_AcceptIffAllChecksPass ==
    (Parsed /\ call.op = "VerifyWithOptions" /\ CodesAbsentOrNonEmpty)
        => (Accepted <=> AllChecksPass)

\* A V3 call with every option set, accepted at the boundary of the time limit.
C1_Witness ==
    /\ Parsed /\ call.op = "VerifyWithOptions" /\ CodesAbsentOrNonEmpty
    /\ captcha.Version = V3
    /\ Opts.Action # "" /\ Opts.Threshold # 0 /\ Opts.Hostname # ""
    /\ Opts.ApkPackageName # "" /\ Opts.ResponseTime # 0
    /\ Elapsed = Opts.ResponseTime
    /\ Accepted

----------------------------------------------------------------------------
(* C2 *)

\* The checks in the order claimed, each with the condition under which it
\* fails.  The error-codes check is the code's: it fails when the response
\* has an error-codes list.
CheckFails ==
    << captcha.Version = V3 /\ ~ActionOk,
       captcha.Version = V3 /\ ~ScoreOk,
       ~Resp.ErrorCodes.isNil,
       ~Resp.Success,
       ~HostnameOk,
       ~ApkOk,
       ~TimeOk >>

\* The rejection of each check, in the same order.
Rejection(i) ==
    CASE i = 1 -> actionError(Opts, Resp, RawBody)
      [] i = 2 -> scoreError(Opts, Resp, RawBody)
      [] i = 3 -> codesError(Resp, RawBody)
      [] i = 4 -> successError(Req, RawBody)
      [] i = 5 -> hostnameError(Opts, Resp, RawBody)
      [] i = 6 -> apkError(Opts, Resp, RawBody)
      [] i = 7 -> timeError(Opts, Elapsed, RawBody)

FailingChecks == LET fails == CheckFails IN {i \in DOMAIN fails : fails[i]}

\* The response-time check is the last of the order.
TimeCheck == Len(CheckFails)

\* C2: the checks run in the order action, score (both V3 only), error codes,
\* success, hostname, app package name, response time, and stop at the first
\* failure: the rejection returned is that of the earliest failing check, and
\* the time source is called only when no earlier check failed and a
\* ResponseTime is set.
C2_EarliestFailingCheckRejects ==
    Parsed =>
        LET failing == FailingChecks
            earliest == CHOOSE i \in failing : \A j \in failing : i <= j
        IN  /\ failing = {} => Accepted
            /\ failing # {} => out.err = Rejection(earliest)
            /\ out.since =
                  IF /\ Opts.ResponseTime # 0
                     /\ \A i \in failing : i = TimeCheck
                  THEN <<Resp.ChallengeTS>>
                  ELSE <<>>

\* A V3 call in which the score, the success flag, the hostname and the
\* response time all fail: the score rejection is returned and the clock is
\* not read.
C2_Witness ==
    /\ Parsed
    /\ FailingChecks = {2, 4, 5, 7}
    /\ out.err = scoreError(Opts, Resp, RawBody)
    /\ out.since = <<>>

----------------------------------------------------------------------------
(* C3 *)

\* C3 as claimed: whenever the parsed response carries one or more error
\* codes, Verify and VerifyWithOptions reject with an error whose ErrorCodes
\* is the remote list, whatever success, the version and the options.
C3_RemoteCodesAlwaysReported ==
    (Parsed /\ Len(Resp.ErrorCodes.elems) >= 1)
        => /\ out.err.type = "*Error"
           /\ out.err.ErrorCodes = Slice(RawBody["error-codes"])

----------------------------------------------------------------------------
(* C4 *)

\* The rejections of the two checks the claim lets Verify apply.
CodesOrSuccessRejection ==
    \/ out.err = codesError(Resp, RawBody)
    \/ out.err = successError(Req, RawBody)

----------------------------------------------------------------------------
(* C5 *)

\* C5: under V3, once the action check has passed, the call is rejected for
\* its score exactly when the score is below the threshold of the options,
\* or below DefaultThreshold when that threshold is zero; a score equal to
\* the threshold is not rejected for its score.
C5_ScoreBelowThresholdRejects ==
    (Parsed /\ captcha.Version = V3 /\ ActionOk)
        => LET s == Resp.Score
               t == Opts.Threshold
               scoreRejected == out.err = scoreError(Opts, Resp, RawBody)
           IN  /\ t = 0 => (scoreRejected <=> s < DefaultThreshold)
               /\ t # 0 => (scoreRejected <=> s < t)
               /\ ~scoreRejected => out.err # actionError(Opts, Resp, RawBody)

\* A score equal to a set threshold that lies below the default: accepted.
C5_Witness ==
    /\ Parsed /\ captcha.Version = V3 /\ ActionOk
    /\ Opts.Threshold # 0
    /\ Opts.Threshold < DefaultThreshold
    /\ Resp.Score = Opts.Threshold
    /\ Accepted

----------------------------------------------------------------------------
(* C6 *)

\* C6: on a V2 engine the outcome of VerifyWithOptions is the outcome of the
\* same call with Action and Threshold cleared, and is never an action or a
\* score rejection; on a V3 engine a set Action that differs from the
\* response's action is rejected with the action mismatch.
C6_V2IgnoresActionAndThreshold ==
    /\ (Returned /\ call.op = "VerifyWithOptions" /\ captcha.Version = V2)
          => out = VerifyWithOptions(captcha, call.challengeResponse,
                                     [Opts EXCEPT !.Action = "", !.Threshold = 0],
                                     call.post)
    /\ (Parsed /\ call.op = "VerifyWithOptions" /\ captcha.Version = V2)
          => /\ out.err # actionError(Opts, Resp, RawBody)
             /\ out.err # scoreError(Opts, Resp, RawBody)
    /\ (Parsed /\ call.op = "VerifyWithOptions" /\ captcha.Version = V3 /\ ~ActionOk)
          => out.err = actionError(Opts, Resp, RawBody)

\* A V2 call accepted although its Action differs and its Threshold is above
\* the score.
C6_Witness ==
    /\ Parsed /\ call.op = "VerifyWithOptions" /\ captcha.Version = V2
    /\ ~ActionOk
    /\ Opts.Threshold > Resp.Score
    /\ Accepted

----------------------------------------------------------------------------
(* C7 *)

TransportShape(body) ==
    /\ out.err.type = "*Error"
    /\ out.err.RequestError
    /\ out.err.ResponseBody = body
    /\ out.err.ErrorCodes = NilSlice

\* C7: a post failure and a body-read failure give RequestError with no
\* response body; a parse failure gives RequestError with the raw body; every
\* rejection of a parsed response gives RequestError = false with the raw
\* body, and ErrorCodes is set exactly in the error-codes rejection.
C7_ErrorClassesHaveFixedShape ==
    /\ PostFailed => TransportShape(EmptyString)
    /\ ReadFailed => TransportShape(EmptyString)
    /\ ParseFailed => TransportShape(RawBody)
    /\ (Parsed /\ ~Accepted)
          => /\ out.err.type = "*Error"
             /\ ~out.err.RequestError
             /\ out.err.ResponseBody = RawBody
             /\ ~out.err.ErrorCodes.isNil
                   <=> out.err.msg = "remote error codes: "
                                         \o FormatCodes(Resp.ErrorCodes)
             /\ ~out.err.ErrorCodes.isNil => out.err.ErrorCodes = Resp.ErrorCodes

\* A body that is no JSON: a request error that carries the body.
C7_Witness ==
    /\ ParseFailed
    /\ RawBody # EmptyString
    /\ out.err.RequestError
    /\ out.err.ResponseBody = RawBody

----------------------------------------------------------------------------
(* C8 *)

\* C8: NewReCAPTCHA with a blank secret returns an error and posts nothing;
\* with a non-blank secret it returns no error and an engine that holds the
\* given secret, version and timeout and the fixed endpoint.
C8_NewReCAPTCHAKeepsItsArguments ==
    (pc = "returned" /\ call.op = "NewReCAPTCHA")
        => /\ out.posted = <<>>
           /\ call.secret = ""
                 => /\ out.err.type \notin {"nil", "panic"}
                    /\ out.err.msg = "recaptcha secret cannot be blank"
           /\ call.secret # ""
                 => /\ out.err = NilError
                    /\ captcha.Secret = call.secret
                    /\ captcha.Version = call.version
                    /\ captcha.Timeout = call.timeout
                    /\ captcha.ReCAPTCHALink = reCAPTCHALink

\* A V3 engine made with a nonzero timeout.
C8_Witness ==
    /\ pc = "returned" /\ call.op = "NewReCAPTCHA"
    /\ call.secret # "" /\ call.version = V3 /\ call.timeout # 0
    /\ captcha.Timeout = call.timeout
    /\ out.err = NilError

----------------------------------------------------------------------------
(* C9 *)

\* Every check before the response-time check lets the response through.
EarlierChecksPass ==
    /\ captcha.Version = V3 => ActionOk /\ ScoreOk
    /\ Resp.ErrorCodes.isNil
    /\ Resp.Success
    /\ HostnameOk
    /\ ApkOk

\* C9: when the earlier checks pass and ResponseTime is nonzero, the clock is
\* asked for the time since the challenge timestamp and the call is rejected
\* exactly when that time exceeds ResponseTime (equal is accepted); when
\* ResponseTime is zero the clock is not asked and the call is accepted.
C9_ResponseTimeBound ==
    (Parsed /\ EarlierChecksPass)
        => /\ Opts.ResponseTime # 0
                 => /\ out.since = <<Resp.ChallengeTS>>
                    /\ Elapsed > Opts.ResponseTime
                          => out.err = timeError(Opts, Elapsed, RawBody)
                    /\ Elapsed <= Opts.ResponseTime => Accepted
           /\ Opts.ResponseTime = 0 => out.since = <<>> /\ Accepted

\* A challenge solved longer ago than ResponseTime allows: rejected.
C9_Witness ==
    /\ Parsed /\ EarlierChecksPass
    /\ Opts.ResponseTime # 0
    /\ Elapsed > Opts.ResponseTime
    /\ out.err = timeError(Opts, Elapsed, RawBody)

----------------------------------------------------------------------------
(* C10 *)

\* C10: a Verify or VerifyWithOptions call on an engine NewReCAPTCHA made
\* returns, with nil or an *Error, and never panics; a post failure, a read
\* failure or a malformed body is returned as an *Error.
C10_CallsReturnNilOrError ==
    (IsVerifyCall /\ Constructed)
        => /\ pc = "returned"
           /\ out.err.type \in {"nil", "*Error"}
           /\ (PostFailed \/ ReadFailed \/ ParseFailed) => out.err.type = "*Error"

\* A body that fails while it is read: the call returns an *Error.
C10_Witness ==
    /\ Constructed
    /\ ReadFailed
    /\ out.err.type = "*Error"

----------------------------------------------------------------------------
(* C11 *)

\* The transport handed back a response, with or without an error.
ResponseObtained == Returned /\ ~call.post.response.isNil

\* The body of that response is closed when the call returns: it came closed,
\* or the call's deferred Close ran.
BodyReleased == call.post.response.Body.closed \/ out.closed

\* C11 as claimed: whenever the transport handed back a response, its body
\* is closed before the verification call returns, whatever the call ends
\* in, a post failure included.
C11_BodyAlwaysClosed == ResponseObtained => BodyReleased

----------------------------------------------------------------------------
(* C12 *)

\* The error-codes member of the response is there and is the empty list.
CodesPresentButEmpty ==
    "error-codes" \in DOMAIN RawBody /\ Len(RawBody["error-codes"]) = 0

\* C12 as claimed: a parsed response whose error-codes list is present but
\* empty is not rejected by the error-codes check, and is accepted when
\* success is true and every other applicable check passes.
C12_EmptyCodesNotRejected ==
    (Parsed /\ CodesPresentButEmpty)
        => /\ out.err # codesError(Resp, RawBody)
           /\ AllChecksPass => Accepted

====
